---- MODULE Spec2Model ----
(***************************************************************************)
(* Model of the nancy log analyzer (src/analyze): the event extractor      *)
(* (parse_logs.py), the classifier and phase aggregator (classify.py) and  *)
(* the cross-run aggregator (compare.py).                                  *)
(*                                                                         *)
(* Python values are represented as follows.                               *)
(*   - str: a TLA+ string; None where a str is expected is the value None. *)
(*   - Optional[int] (first_edit_seq): <<>> for None, <<k>> for the int k. *)
(*   - dict: a record / function; d.get(k, default) is Get(d, k, default). *)
(*   - an insertion-ordered dict (iterations, per_iteration): a sequence   *)
(*     of <<key, value>> pairs with distinct keys.                         *)
(*   - a set, and the sorted list made from a set: a TLA+ set.             *)
(*   - one line of a log file: a record saying whether the stripped line   *)
(*     is empty, is rejected by json.loads, or which JSON value it holds.  *)
(***************************************************************************)
EXTENDS Integers, Sequences, FiniteSets, TLC

VARIABLES
    log_dir,        \* the directory: file name -> sequence of lines
    iterations,     \* parse_experiment_logs' dict: <<name, events>> pairs
    per_iteration,  \* analyze_condition's dict: <<name, summary>> pairs
    aggregate,      \* <<>> until _aggregate_iterations returns, then <<agg>>
    events,         \* the event list handed to classify_events directly
    first_edit_seq, \* what classify_events returned with it
    summary,        \* <<>> until compute_phase_summary returns, then <<s>>
    pc              \* position of the caller

vars == <<log_dir, iterations, per_iteration, aggregate,
          events, first_edit_seq, summary, pc>>

-----------------------------------------------------------------------------
(* Bounds of the model *)

\* longest log file, in lines, of the single-file directories
MaxLines == 3
\* number of iteration logs a multi-file directory may hold
MaxRuns == 3
\* longest event list handed to classify_events directly
MaxEvents == 3
\* longest list of tool calls handed to classify_events directly
MaxCalls == 2
\* number of iteration logs a directory of whole runs may hold
MaxFiles == 3
\* longest list of token_usage events handed to classify_events directly
MaxTokenEvents == 3
\* longest list of edits and other events handed to classify_events directly
MaxEdits == 3
\* longest log, in records, of the directories of one log of records
MaxRecords == 3

-----------------------------------------------------------------------------
(* Python values *)

None == "<None>"

Get(d, k, default) == IF k \in DOMAIN d THEN d[k] ELSE default

\* x or ""
OrEmpty(x) == IF x = None THEN "" ELSE x

\* truth value of an Optional[str]
Truthy(x) == x # None /\ x # ""

Min(a, b) == IF a < b THEN a ELSE b

BoundedSeq(S, n) == UNION {[1..k -> S] : k \in 0..n}

RECURSIVE SumSeq(_)
SumSeq(s) == IF s = <<>> THEN 0 ELSE Head(s) + SumSeq(Tail(s))

-----------------------------------------------------------------------------
(* Strings: str methods and the regular expressions of classify.py *)

CharAt(s, i) == SubSeq(s, i, i)

\* s[i:].startswith(sub), i counted from 1
HasAt(s, i, sub) ==
    /\ i >= 1
    /\ i + Len(sub) - 1 <= Len(s)
    /\ SubSeq(s, i, i + Len(sub) - 1) = sub

StartsWith(s, sub) == HasAt(s, 1, sub)

\* sub in s
Contains(s, sub) == \E i \in 1..(Len(s) + 1) : HasAt(s, i, sub)

UpperChars == "ABCDEFGHIJKLMNOPQRSTUVWXYZ"
LowerChars == "abcdefghijklmnopqrstuvwxyz"
DigitChars == "0123456789"

UpperSet == {CharAt(UpperChars, i) : i \in 1..Len(UpperChars)}
WordSet ==
    {CharAt(UpperChars, i) : i \in 1..Len(UpperChars)}
        \cup {CharAt(LowerChars, i) : i \in 1..Len(LowerChars)}
        \cup {CharAt(DigitChars, i) : i \in 1..Len(DigitChars)} \cup {"_"}

LowerMap ==
    [c \in UpperSet |->
        CharAt(LowerChars, CHOOSE i \in 1..Len(UpperChars) : CharAt(UpperChars, i) = c)]

LowerChar(c) == IF c \in UpperSet THEN LowerMap[c] ELSE c

\* s.lower(), and what re.IGNORECASE compares
RECURSIVE Lower(_)
Lower(s) ==
    IF Len(s) = 0 THEN ""
    ELSE LowerChar(CharAt(s, 1)) \o Lower(SubSeq(s, 2, Len(s)))

\* \w
IsWordChar(c) == c \in WordSet

\* \s
IsSpace(c) == c \in {" ", "\t", "\n", "\r", "\f"}

\* rx = re.compile(word + "$"); rx.search(s): $ matches at the end of the
\* string and before a newline that ends it
SearchAtEnd(s, word) ==
    \/ HasAt(s, Len(s) - Len(word) + 1, word)
    \/ HasAt(s, Len(s) - Len(word), word \o "\n")

\* "^(w1|w2|...)\b" with IGNORECASE: the string starts with one of the words
\* and a non-word character or the end follows it
MatchWordAtStart(s, words) ==
    LET low == Lower(s)
    IN \E w \in words :
          /\ StartsWith(low, w)
          /\ \/ Len(s) = Len(w)
             \/ ~IsWordChar(CharAt(s, Len(w) + 1))

\* the lengths k >= 1 such that s[i : i + k] is all whitespace
SpaceRuns(s, i) ==
    {k \in 1..(Len(s) - i + 1) : \A j \in 0..(k - 1) : IsSpace(CharAt(s, i + j))}

\* "^(h1|h2|...)\s+(t1|t2|...)" with IGNORECASE
MatchHeadSpaceTail(s, heads, tails) ==
    LET low == Lower(s)
    IN \E h \in heads :
          /\ StartsWith(low, h)
          /\ \E k \in SpaceRuns(s, Len(h) + 1) :
                \E t \in tails : HasAt(low, Len(h) + k + 1, t)

\* "^echo\s+.*done.*COMPLETE" with IGNORECASE ("." matches no newline)
MatchEchoDoneComplete(s) ==
    LET low == Lower(s)
    IN /\ StartsWith(low, "echo")
       /\ \E k \in SpaceRuns(s, 5) :
             \E d \in (5 + k)..Len(s) :
                /\ HasAt(low, d, "done")
                /\ \E c \in (d + 4)..Len(s) :
                      /\ HasAt(low, c, "complete")
                      /\ \A j \in (5 + k)..(c - 1) : CharAt(s, j) # "\n"

\* the order of str comparison, for the characters of the names used here
AsciiOrder == "-./0123456789_abcdefghijklmnopqrstuvwxyz"

Ord(c) == CHOOSE i \in 1..Len(AsciiOrder) : CharAt(AsciiOrder, i) = c

\* a < b for str
RECURSIVE StrLess(_, _)
StrLess(a, b) ==
    IF Len(b) = 0 THEN FALSE
    ELSE IF Len(a) = 0 THEN TRUE
    ELSE IF CharAt(a, 1) = CharAt(b, 1)
         THEN StrLess(SubSeq(a, 2, Len(a)), SubSeq(b, 2, Len(b)))
         ELSE Ord(CharAt(a, 1)) < Ord(CharAt(b, 1))

\* SortedByKey without the sort: the pairs in insertion order
SortedByKey_insertion_order(pairs) == pairs

\* sorted(pairs): the <<key, value>> pairs in the order of their (distinct) keys
RECURSIVE SortedByKey(_)
SortedByKey(pairs) ==
    IF pairs = <<>> THEN <<>>
    ELSE LET least == CHOOSE i \in 1..Len(pairs) :
                         \A j \in 1..Len(pairs) : j = i \/ StrLess(pairs[i][1], pairs[j][1])
         IN <<pairs[least]>> \o
            SortedByKey([k \in 1..(Len(pairs) - 1) |->
                            IF k < least THEN pairs[k] ELSE pairs[k + 1]])

-----------------------------------------------------------------------------
(* parse_logs.py: the event extractor *)

EmptyDict == <<>>

\* One line of a log file, as parse_log_file sees it after line.strip():
\*   "blank"   the stripped line is empty
\*   "invalid" json.loads raises JSONDecodeError
\*   "scalar"  json.loads returns a value that is not an object
\*   "object"  json.loads returns the dict raw
BlankLine == [json |-> "blank"]
InvalidLine == [json |-> "invalid"]
ScalarLine == [json |-> "scalar"]
ObjectLine(raw) == [json |-> "object", raw |-> raw]

extract_file_path(tool_name, args) ==
    IF tool_name \in {"Read", "Edit", "Write"} THEN Get(args, "file_path", None)
    ELSE IF tool_name = "Glob" THEN Get(args, "pattern", None)
    ELSE IF tool_name = "Grep" THEN Get(args, "path", None)
    ELSE IF tool_name = "mcp__mcp-files__read_symbol"
         THEN LET paths == Get(args, "file_paths", <<>>)
              IN IF paths # <<>> THEN paths[1] ELSE None
    ELSE None

extract_command(tool_name, args) ==
    IF tool_name = "Bash" THEN Get(args, "command", None)
    ELSE IF tool_name = "Skill" THEN Get(args, "skill", None)
    ELSE IF tool_name = "Task"
         THEN LET prompt == Get(args, "prompt", "")
              IN SubSeq(prompt, 1, Min(200, Len(prompt)))
    ELSE None

\* the four counters copied from a usage block into a token_usage event
usage_fields(usage) ==
    [input_tokens |-> Get(usage, "input_tokens", 0),
     output_tokens |-> Get(usage, "output_tokens", 0),
     cache_creation_input_tokens |-> Get(usage, "cache_creation_input_tokens", 0),
     cache_read_input_tokens |-> Get(usage, "cache_read_input_tokens", 0)]

\* "if usage:" for usage = d.get("usage")
HasUsage(d) == "usage" \in DOMAIN d /\ DOMAIN d.usage # {}

init_events(raw, seq) ==
    << [seq |-> seq, type |-> "init",
        session_id |-> Get(raw, "session_id", None),
        cwd |-> Get(raw, "cwd", None),
        model |-> Get(raw, "model", None),
        tools |-> Get(raw, "tools", <<>>),
        mcp_servers |-> Get(raw, "mcp_servers", <<>>)] >>

\* the loop over the content blocks of an assistant message
RECURSIVE content_events(_, _, _)
content_events(content, session_id, seq) ==
    IF content = <<>> THEN <<>>
    ELSE LET block == Head(content)
             tool_input == Get(block, "input", EmptyDict)
         IN IF Get(block, "type", None) = "tool_use"
            THEN << [seq |-> seq, type |-> "tool_call",
                     session_id |-> session_id,
                     tool_name |-> Get(block, "name", None),
                     tool_id |-> Get(block, "id", None),
                     arguments |-> tool_input,
                     file_path |-> extract_file_path(Get(block, "name", None), tool_input),
                     command |-> extract_command(Get(block, "name", None), tool_input)] >>
                 \o content_events(Tail(content), session_id, seq + 1)
            ELSE IF Get(block, "type", None) = "text"
            THEN << [seq |-> seq, type |-> "assistant_text",
                     session_id |-> session_id,
                     text_length |-> Len(Get(block, "text", ""))] >>
                 \o content_events(Tail(content), session_id, seq + 1)
            ELSE content_events(Tail(content), session_id, seq)

\* assistant_events with the usage event appended after the content blocks
assistant_events_usage_last(raw, seq) ==
    LET msg == Get(raw, "message", EmptyDict)
        content == Get(msg, "content", <<>>)
        session_id == Get(raw, "session_id", None)
        block_events == content_events(content, session_id, seq)
    IN block_events \o
       (IF HasUsage(msg)
        THEN << [seq |-> seq + Len(block_events), type |-> "token_usage",
                 session_id |-> session_id,
                 message_id |-> Get(msg, "id", None)] @@ usage_fields(msg.usage) >>
        ELSE <<>>)

assistant_events(raw, seq) ==
    LET msg == Get(raw, "message", EmptyDict)
        content == Get(msg, "content", <<>>)
        session_id == Get(raw, "session_id", None)
        usage_events ==
            IF HasUsage(msg)
            THEN << [seq |-> seq, type |-> "token_usage",
                     session_id |-> session_id,
                     message_id |-> Get(msg, "id", None)] @@ usage_fields(msg.usage) >>
            ELSE <<>>
    IN usage_events \o content_events(content, session_id, seq + Len(usage_events))

\* stream_events with the message_delta records turned into token_usage events
stream_events_with_delta(raw, seq) ==
    LET event_data == Get(raw, "event", EmptyDict)
        message == Get(event_data, "message", EmptyDict)
    IN IF Get(event_data, "type", None) = "message_start" /\ HasUsage(message)
       THEN << [seq |-> seq, type |-> "token_usage",
                session_id |-> Get(raw, "session_id", None),
                source |-> "stream_message_start",
                message_id |-> Get(message, "id", None)] @@ usage_fields(message.usage) >>
       ELSE IF Get(event_data, "type", None) = "message_delta" /\ HasUsage(event_data)
       THEN << [seq |-> seq, type |-> "token_usage",
                session_id |-> Get(raw, "session_id", None),
                source |-> "stream_message_delta",
                message_id |-> None] @@ usage_fields(event_data.usage) >>
       ELSE <<>>

stream_events(raw, seq) ==
    LET event_data == Get(raw, "event", EmptyDict)
        message == Get(event_data, "message", EmptyDict)
    IN IF Get(event_data, "type", None) = "message_start" /\ HasUsage(message)
       THEN << [seq |-> seq, type |-> "token_usage",
                session_id |-> Get(raw, "session_id", None),
                source |-> "stream_message_start",
                message_id |-> Get(message, "id", None)] @@ usage_fields(message.usage) >>
       ELSE <<>>

user_events(raw, seq) ==
    << [seq |-> seq, type |-> "user_message",
        session_id |-> Get(raw, "session_id", None)] >>

\* the events one decoded record adds, numbered from seq
record_events(raw, seq) ==
    LET evt_type == Get(raw, "type", None)
    IN IF evt_type = "system" /\ Get(raw, "subtype", None) = "init"
       THEN init_events(raw, seq)
       ELSE IF evt_type = "assistant" THEN assistant_events(raw, seq)
       ELSE IF evt_type = "stream_event" THEN stream_events(raw, seq)
       ELSE IF evt_type = "user" THEN user_events(raw, seq)
       ELSE <<>>

\* line_outcome without the "except json.JSONDecodeError: continue"
line_outcome_strict(line) ==
    IF line.json = "blank" THEN "continue"
    ELSE IF line.json = "invalid" THEN "raise"
    ELSE IF line.json = "scalar" THEN "raise"
    ELSE "record"

\* what the loop body does with one line: "continue" for a line that is empty
\* after strip() or that json.loads rejects, "raise" for a decoded value that
\* has no .get, "record" for a decoded object
line_outcome(line) ==
    IF line.json = "blank" THEN "continue"
    ELSE IF line.json = "invalid" THEN "continue"
    ELSE IF line.json = "scalar" THEN "raise"
    ELSE "record"

\* advance with the counter stepped once per record instead of once per event
advance_per_record(seq, new) == seq + 1

\* the counter after the "seq += 1" that follows each append of the events new
advance(seq, new) == seq + Len(new)

\* The loop of parse_log_file from line i on, with the events and the counter
\* so far. A line holding a JSON value that is not an object makes raw.get
\* raise AttributeError: the result then has raised = TRUE and no events.
RECURSIVE parse_lines(_, _, _, _)
parse_lines(lines, i, evs, seq) ==
    IF i > Len(lines) THEN [raised |-> FALSE, events |-> evs]
    ELSE IF line_outcome(lines[i]) = "continue" THEN parse_lines(lines, i + 1, evs, seq)
    ELSE IF line_outcome(lines[i]) = "raise" THEN [raised |-> TRUE, events |-> <<>>]
    ELSE LET new == record_events(lines[i].raw, seq)
         IN parse_lines(lines, i + 1, evs \o new, advance(seq, new))

parse_log_file(lines) == parse_lines(lines, 1, <<>>, 0)

-----------------------------------------------------------------------------
(* classify.py: exclusion rules and the command patterns *)

\* SearchNancyInternal without the negative lookahead: r"\.nancy/"
SearchNancyAnywhere(path) == \E i \in 1..Len(path) : HasAt(path, i, ".nancy/")

\* rx.search(path) for r"\.nancy/(?!tasks/)"
SearchNancyInternal(path) ==
    \E i \in 1..Len(path) :
        HasAt(path, i, ".nancy/") /\ ~HasAt(path, i + 7, "tasks/")

\* any(rx.search(path) for rx in EXCLUDED_EDIT_RE)
is_excluded_file(path) ==
    \/ SearchAtEnd(path, "ISSUES.md")
    \/ SearchAtEnd(path, "COMPLETE")
    \/ SearchNancyInternal(path)
    \/ SearchAtEnd(path, "config.json")
    \/ SearchAtEnd(path, "token-usage.json")

\* _matches_compiled(cmd, NAV_BASH_RE)
matches_nav_bash(cmd) ==
    \/ MatchWordAtStart(cmd, {"ls", "find", "tree", "wc", "cat", "head", "tail", "stat", "file"})
    \/ MatchHeadSpaceTail(cmd, {"git"}, {"log", "show", "diff", "blame", "status"})
    \/ MatchWordAtStart(cmd, {"rg", "grep", "ag", "ack"})

\* _matches_compiled(cmd, TASK_BASH_RE)
matches_task_bash(cmd) ==
    \/ MatchHeadSpaceTail(cmd, {"git"},
           {"add", "commit", "push", "checkout", "branch", "merge", "rebase", "stash"})
    \/ MatchHeadSpaceTail(cmd, {"npm", "pnpm", "yarn", "bun"}, {"test", "build", "run", "install"})
    \/ MatchHeadSpaceTail(cmd, {"just", "make", "cargo", "go"}, {"test", "build", "check", "run"})
    \/ MatchWordAtStart(cmd, {"pytest", "jest", "vitest", "mocha"})
    \/ MatchWordAtStart(cmd, {"mkdir"})
    \/ MatchWordAtStart(cmd, {"cp", "mv", "rm"})
    \/ MatchWordAtStart(cmd, {"tsc", "eslint", "prettier"})
    \/ MatchWordAtStart(cmd, {"python", "node", "deno", "bun"})

\* _matches_compiled(cmd, BOILERPLATE_BASH_RE)
matches_boilerplate_bash(cmd) ==
    \/ MatchHeadSpaceTail(cmd, {"nancy"}, {"inbox", "msg", "archive", "status"})
    \/ MatchEchoDoneComplete(cmd)

-----------------------------------------------------------------------------
(* classify.py: _classify_tool_call *)

\* what _classify_tool_call gives when name.startswith is reached with name = None
Raised == "<AttributeError>"

\* is_fmm_navigation without the test for a Read of a sidecar file
is_fmm_navigation_no_read(name, fp, cmd) ==
    \/ name = "mcp__mcp-files__read_symbol"
    \/ /\ name = "Bash"
       /\ LET low == Lower(cmd)
          IN Contains(low, "fmm") /\ (Contains(low, "search") \/ Contains(low, "grep"))

\* the three "FMM navigation tools" tests
is_fmm_navigation(name, fp, cmd) ==
    \/ name = "mcp__mcp-files__read_symbol"
    \/ name = "Read" /\ Contains(fp, ".fmm")
    \/ /\ name = "Bash"
       /\ LET low == Lower(cmd)
          IN Contains(low, "fmm") /\ (Contains(low, "search") \/ Contains(low, "grep"))

\* the branch taken for name = "Skill"
classify_skill(skill) ==
    IF Truthy(skill) /\ Contains(skill, "check-directives") THEN "boilerplate"
    ELSE IF Truthy(skill) /\ Contains(skill, "nancy") THEN "boilerplate"
    ELSE "other"

\* classify_tool_call without the closing default of Bash to navigation
classify_tool_call_other_default(event) ==
    LET name == event.tool_name
        fp == OrEmpty(Get(event, "file_path", ""))
        cmd == OrEmpty(Get(event, "command", ""))
    IN IF is_fmm_navigation(name, fp, cmd) THEN "fmm_navigation"
       ELSE IF name \in {"TodoWrite", "KillShell"} THEN "boilerplate"
       ELSE IF name = "Skill" THEN classify_skill(Get(event, "command", ""))
       ELSE IF name = "Bash" /\ matches_boilerplate_bash(cmd) THEN "boilerplate"
       ELSE IF name \in {"Edit", "Write"} THEN "task_work"
       ELSE IF name = "Bash" /\ matches_task_bash(cmd) THEN "task_work"
       ELSE IF name \in {"Read", "Grep", "Glob", "WebFetch"} THEN "navigation"
       ELSE IF name = "Bash" /\ matches_nav_bash(cmd) THEN "navigation"
       ELSE IF name = "Task" THEN "navigation"
       ELSE IF name = "TaskOutput" THEN "navigation"
       ELSE IF name = None THEN Raised
       ELSE IF StartsWith(name, "mcp__linear") THEN "boilerplate"
       ELSE IF StartsWith(name, "mcp__context7") THEN "navigation"
       ELSE "other"

classify_tool_call(event) ==
    LET name == event.tool_name
        fp == OrEmpty(Get(event, "file_path", ""))
        cmd == OrEmpty(Get(event, "command", ""))
    IN IF is_fmm_navigation(name, fp, cmd) THEN "fmm_navigation"
       ELSE IF name \in {"TodoWrite", "KillShell"} THEN "boilerplate"
       ELSE IF name = "Skill" THEN classify_skill(Get(event, "command", ""))
       ELSE IF name = "Bash" /\ matches_boilerplate_bash(cmd) THEN "boilerplate"
       ELSE IF name \in {"Edit", "Write"} THEN "task_work"
       ELSE IF name = "Bash" /\ matches_task_bash(cmd) THEN "task_work"
       ELSE IF name \in {"Read", "Grep", "Glob", "WebFetch"} THEN "navigation"
       ELSE IF name = "Bash" /\ matches_nav_bash(cmd) THEN "navigation"
       ELSE IF name = "Task" THEN "navigation"
       ELSE IF name = "TaskOutput" THEN "navigation"
       ELSE IF name = None THEN Raised
       ELSE IF StartsWith(name, "mcp__linear") THEN "boilerplate"
       ELSE IF StartsWith(name, "mcp__context7") THEN "navigation"
       ELSE IF name = "Bash" THEN "navigation"
       ELSE "other"

-----------------------------------------------------------------------------
(* classify.py: _find_first_edit and classify_events *)

\* is_first_edit_candidate without the "if _is_excluded_file(fp): continue"
is_first_edit_candidate_any_path(event) ==
    /\ event.type = "tool_call"
    /\ event.tool_name \in {"Edit", "Write"}

\* is_first_edit_candidate reading the category a previous pass assigned
is_first_edit_candidate_by_category(event) ==
    /\ event.type = "tool_call"
    /\ Get(event, "category", None) = "task_work"

\* the test of one event in the loop of _find_first_edit
is_first_edit_candidate(event) ==
    /\ event.type = "tool_call"
    /\ event.tool_name \in {"Edit", "Write"}
    /\ ~is_excluded_file(OrEmpty(Get(event, "file_path", "")))

\* find_first_edit going on to the last edit that qualifies
RECURSIVE find_first_edit_last(_)
find_first_edit_last(evs) ==
    IF evs = <<>> THEN <<>>
    ELSE IF is_first_edit_candidate(evs[Len(evs)]) THEN <<evs[Len(evs)].seq>>
    ELSE find_first_edit_last(SubSeq(evs, 1, Len(evs) - 1))

RECURSIVE find_first_edit(_)
find_first_edit(evs) ==
    IF evs = <<>> THEN <<>>
    ELSE IF is_first_edit_candidate(Head(evs)) THEN <<Head(evs).seq>>
    ELSE find_first_edit(Tail(evs))

\* the category chosen by the if/elif chain on event["type"]
category_of(event) ==
    IF event.type = "tool_call" THEN classify_tool_call(event)
    ELSE IF event.type = "token_usage" THEN "token_usage"
    ELSE IF event.type = "init" THEN "boilerplate"
    ELSE IF event.type = "user_message" THEN "other"
    ELSE IF event.type = "assistant_text" THEN "other"
    ELSE "other"

\* phase_of with "<=" for "<"
phase_of_inclusive(seq, fes) ==
    IF fes # <<>>
    THEN IF seq <= fes[1] THEN "nav" ELSE "work"
    ELSE "nav"

phase_of(seq, fes) ==
    IF fes # <<>>
    THEN IF seq < fes[1] THEN "nav" ELSE "work"
    ELSE "nav"

\* classify_event building a new event of the fields the summary reads
classify_event_rebuilt(event, fes) ==
    [category |-> category_of(event), phase |-> phase_of(event.seq, fes)] @@
    [k \in DOMAIN event \cap {"seq", "type", "tool_name", "file_path", "message_id",
                              "input_tokens", "output_tokens",
                              "cache_creation_input_tokens", "cache_read_input_tokens"}
        |-> event[k]]

\* one pass of the loop body: the event with its two fields set
classify_event(event, fes) ==
    [category |-> category_of(event), phase |-> phase_of(event.seq, fes)] @@ event

\* The list is mutated in place. When _classify_tool_call raises at event i,
\* events 1..i-1 carry their new fields, the others are as they were, and the
\* exception leaves classify_events: raised = TRUE.
classify_events(evs) ==
    LET fes == find_first_edit(evs)
        bad == {i \in 1..Len(evs) : category_of(evs[i]) = Raised}
        stop == IF bad = {} THEN Len(evs) + 1
                ELSE CHOOSE i \in bad : \A j \in bad : i <= j
    IN [raised |-> bad # {},
        events |-> [i \in 1..Len(evs) |->
                       IF i < stop THEN classify_event(evs[i], fes) ELSE evs[i]],
        first_edit_seq |-> fes]

-----------------------------------------------------------------------------
(* classify.py: compute_phase_summary *)

TokenKeys == {"input", "output", "cache_create", "cache_read"}

ZeroTokens == [k \in TokenKeys |-> 0]

\* the dict "tokens" built from one token_usage event
event_tokens(event) ==
    [input |-> event.input_tokens,
     output |-> event.output_tokens,
     cache_create |-> event.cache_creation_input_tokens,
     cache_read |-> event.cache_read_input_tokens]

\* for k in tokens: d[k] += tokens[k]
add_tokens(d, tokens) == [k \in TokenKeys |-> d[k] + tokens[k]]

\* is_duplicate with the deduplication left out
is_duplicate_never(msg_id, seen_message_ids) == FALSE

\* is_duplicate taking an event without an id for a duplicate
is_duplicate_or_no_id(msg_id, seen_message_ids) ==
    ~Truthy(msg_id) \/ msg_id \in seen_message_ids

\* "if msg_id and msg_id in seen_message_ids: continue"
is_duplicate(msg_id, seen_message_ids) ==
    Truthy(msg_id) /\ msg_id \in seen_message_ids

\* token_sum counting the tokens read from the cache as input
token_sum_with_cache_read(d) == d["input"] + d["output"] + d["cache_read"]

\* token_sum counting the cache tokens too
token_sum_all(d) == d["input"] + d["output"] + d["cache_create"] + d["cache_read"]

token_sum(d) == d["input"] + d["output"]

\* SummaryStart with seen_message_ids kept from the runs analyzed before
SummaryStart_shared_seen ==
    [nav_tools |-> <<>>, work_tools |-> <<>>,
     nav_tokens |-> ZeroTokens, work_tokens |-> ZeroTokens, total_tokens |-> ZeroTokens,
     nav_files |-> {}, work_files |-> {},
     nav_fmm_count |-> 0, nav_raw_count |-> 0,
     seen_message_ids |->
        UNION {{iterations[r][2][k].message_id :
                    k \in {n \in 1..Len(iterations[r][2]) :
                              /\ iterations[r][2][n].type = "token_usage"
                              /\ Truthy(iterations[r][2][n].message_id)}}
               : r \in 1..Len(per_iteration)}]

\* the local variables of compute_phase_summary before its loop
SummaryStart ==
    [nav_tools |-> <<>>, work_tools |-> <<>>,
     nav_tokens |-> ZeroTokens, work_tokens |-> ZeroTokens, total_tokens |-> ZeroTokens,
     nav_files |-> {}, work_files |-> {},
     nav_fmm_count |-> 0, nav_raw_count |-> 0,
     seen_message_ids |-> {}]

\* summary_token_step adding to total_tokens in the nav branch only
summary_token_step_nav_totals(st, event) ==
    LET msg_id == Get(event, "message_id", None)
        tokens == event_tokens(event)
    IN IF is_duplicate(msg_id, st.seen_message_ids) THEN st
       ELSE [st EXCEPT
               !.seen_message_ids = IF Truthy(msg_id) THEN @ \cup {msg_id} ELSE @,
               !.total_tokens = IF event.phase = "nav" THEN add_tokens(@, tokens) ELSE @,
               !.nav_tokens = IF event.phase = "nav" THEN add_tokens(@, tokens) ELSE @,
               !.work_tokens = IF event.phase = "nav" THEN @ ELSE add_tokens(@, tokens)]

\* one pass of the loop body on a token_usage event
summary_token_step(st, event) ==
    LET msg_id == Get(event, "message_id", None)
        tokens == event_tokens(event)
    IN IF is_duplicate(msg_id, st.seen_message_ids) THEN st
       ELSE [st EXCEPT
               !.seen_message_ids = IF Truthy(msg_id) THEN @ \cup {msg_id} ELSE @,
               !.total_tokens = add_tokens(@, tokens),
               !.nav_tokens = IF event.phase = "nav" THEN add_tokens(@, tokens) ELSE @,
               !.work_tokens = IF event.phase = "nav" THEN @ ELSE add_tokens(@, tokens)]

\* one pass of the loop body on a tool_call event
summary_tool_step(st, event) ==
    LET fp == OrEmpty(Get(event, "file_path", ""))
    IN IF event.phase = "nav"
       THEN [st EXCEPT
               !.nav_tools = Append(@, event),
               !.nav_files = IF fp # "" THEN @ \cup {fp} ELSE @,
               !.nav_fmm_count = IF event.category = "fmm_navigation" THEN @ + 1 ELSE @,
               !.nav_raw_count = IF event.category = "navigation" THEN @ + 1 ELSE @]
       ELSE [st EXCEPT
               !.work_tools = Append(@, event),
               !.work_files = IF fp # "" THEN @ \cup {fp} ELSE @]

RECURSIVE summary_loop(_, _)
summary_loop(st, evs) ==
    IF evs = <<>> THEN st
    ELSE LET event == Head(evs)
         IN summary_loop(
                IF event.type = "token_usage" THEN summary_token_step(st, event)
                ELSE IF event.type = "tool_call" THEN summary_tool_step(st, event)
                ELSE st,
                Tail(evs))

CountIn(tool_list, names) ==
    Cardinality({i \in 1..Len(tool_list) : tool_list[i].tool_name \in names})

\* _tool_counts: tool name -> number of calls
tool_counts(tool_list) ==
    [n \in {tool_list[i].tool_name : i \in 1..Len(tool_list)} |-> CountIn(tool_list, {n})]

\* has_edits testing the truth value of first_edit_seq: false at seq 0
has_edits_truthy(fes) == fes # <<>> /\ fes[1] # 0

\* "has_edits": first_edit_seq is not None
has_edits(fes) == fes # <<>>

\* unique_files stands for sorted(nav_files): the list without repetition, as a set
compute_phase_summary(evs, fes) ==
    LET st == summary_loop(SummaryStart, evs)
    IN [nav_phase |->
            [tool_counts |-> tool_counts(st.nav_tools),
             tool_call_count |-> Len(st.nav_tools),
             tokens |-> st.nav_tokens,
             token_total |-> token_sum(st.nav_tokens),
             unique_files |-> st.nav_files,
             unique_file_count |-> Cardinality(st.nav_files),
             reads |-> CountIn(st.nav_tools, {"Read"}),
             greps |-> CountIn(st.nav_tools, {"Grep", "Glob"}),
             fmm_lookups |-> st.nav_fmm_count,
             raw_nav_lookups |-> st.nav_raw_count],
        work_phase |->
            [tool_counts |-> tool_counts(st.work_tools),
             tool_call_count |-> Len(st.work_tools),
             tokens |-> st.work_tokens,
             token_total |-> token_sum(st.work_tokens),
             unique_files |-> st.work_files,
             unique_file_count |-> Cardinality(st.work_files)],
        totals |->
            [tokens |-> st.total_tokens,
             token_total |-> token_sum(st.total_tokens),
             tool_calls |-> Len(st.nav_tools) + Len(st.work_tools)],
        first_edit_seq |-> fes,
        has_edits |-> has_edits(fes)]

-----------------------------------------------------------------------------
(* compare.py: _aggregate_iterations *)

\* str(n) for an int n >= 0
RECURSIVE IntToStr(_)
IntToStr(n) ==
    IF n < 10 THEN CharAt(DigitChars, n + 1)
    ELSE IntToStr(n \div 10) \o CharAt(DigitChars, (n % 10) + 1)

\* round(x) for the float x = num / den * 100 (num >= 0, den > 0): the nearest
\* integer, the even one of the two when x is halfway between them. The float
\* arithmetic is taken as exact.
round_pct(num, den) ==
    LET q == (num * 100) \div den
        r == (num * 100) % den
    IN IF 2 * r < den THEN q
       ELSE IF 2 * r > den THEN q + 1
       ELSE IF q % 2 = 0 THEN q ELSE q + 1

\* sidecar_ratio without the "if total_nav > 0" guard
sidecar_ratio_unguarded(fmm_lookups, raw_nav_lookups) ==
    IntToStr(fmm_lookups) \o "/" \o IntToStr(fmm_lookups + raw_nav_lookups)

sidecar_ratio(fmm_lookups, raw_nav_lookups) ==
    LET total_nav == fmm_lookups + raw_nav_lookups
    IN IF total_nav > 0
       THEN IntToStr(fmm_lookups) \o "/" \o IntToStr(total_nav)
       ELSE "n/a"

\* nav_pct without the "if agg['total_tokens'] > 0" guard: the division by
\* zero raises and leaves no percentage (-1)
nav_pct_unguarded(nav_tokens, total_tokens) ==
    IF total_tokens = 0 THEN -1 ELSE round_pct(nav_tokens, total_tokens)

nav_pct(nav_tokens, total_tokens) ==
    IF total_tokens > 0 THEN round_pct(nav_tokens, total_tokens) ELSE 0

\* agg before the loop
AggStart(per_iter) ==
    [iteration_count |-> Len(per_iter),
     nav_reads |-> 0, nav_greps |-> 0,
     nav_unique_files |-> {},
     nav_tokens |-> 0, total_tokens |-> 0,
     fmm_lookups |-> 0, raw_nav_lookups |-> 0,
     has_edits |-> FALSE,
     first_edit_iteration |-> None,
     first_edit_pct |-> <<>>]

\* agg_edit_step testing first_edit_pct, not first_edit_iteration, for None
agg_edit_step_pct_unset(agg, name, s) ==
    IF ~s.has_edits THEN agg
    ELSE IF agg.first_edit_pct # <<>> THEN [agg EXCEPT !.has_edits = TRUE]
    ELSE [agg EXCEPT
            !.has_edits = TRUE,
            !.first_edit_iteration = name,
            !.first_edit_pct =
                IF s.totals.token_total > 0
                THEN <<round_pct(s.nav_phase.token_total, s.totals.token_total)>>
                ELSE @]

\* the "if summary['has_edits']" block of the loop body
agg_edit_step(agg, name, s) ==
    IF ~s.has_edits THEN agg
    ELSE IF agg.first_edit_iteration # None THEN [agg EXCEPT !.has_edits = TRUE]
    ELSE [agg EXCEPT
            !.has_edits = TRUE,
            !.first_edit_iteration = name,
            !.first_edit_pct =
                IF s.totals.token_total > 0
                THEN <<round_pct(s.nav_phase.token_total, s.totals.token_total)>>
                ELSE @]

\* update_files on a list: extend() keeps a file once per run that touched it
\* (each entry is tagged with the length of the list before the call)
update_files_extend(files, unique_files) ==
    files \cup {<<Cardinality(files), f>> : f \in unique_files}

\* agg["nav_unique_files"].update(nav["unique_files"])
update_files(files, unique_files) == files \cup unique_files

\* agg_step with the two token sums taken from each other's figure
agg_step_swapped(agg, name, s) ==
    agg_edit_step(
        [agg EXCEPT
            !.nav_reads = @ + s.nav_phase.reads,
            !.nav_greps = @ + s.nav_phase.greps,
            !.nav_unique_files = update_files(@, s.nav_phase.unique_files),
            !.nav_tokens = @ + s.totals.token_total,
            !.total_tokens = @ + s.nav_phase.token_total,
            !.fmm_lookups = @ + s.nav_phase.fmm_lookups,
            !.raw_nav_lookups = @ + s.nav_phase.raw_nav_lookups],
        name, s)

\* one pass of the loop body
agg_step(agg, name, s) ==
    agg_edit_step(
        [agg EXCEPT
            !.nav_reads = @ + s.nav_phase.reads,
            !.nav_greps = @ + s.nav_phase.greps,
            !.nav_unique_files = update_files(@, s.nav_phase.unique_files),
            !.nav_tokens = @ + s.nav_phase.token_total,
            !.total_tokens = @ + s.totals.token_total,
            !.fmm_lookups = @ + s.nav_phase.fmm_lookups,
            !.raw_nav_lookups = @ + s.nav_phase.raw_nav_lookups],
        name, s)

RECURSIVE agg_loop(_, _)
agg_loop(agg, sorted_items) ==
    IF sorted_items = <<>> THEN agg
    ELSE agg_loop(agg_step(agg, Head(sorted_items)[1], Head(sorted_items)[2]),
                  Tail(sorted_items))

\* len(agg["nav_unique_files"])
unique_file_count(files) == Cardinality(files)

\* nav_unique_files stands for the sorted list, as a set
aggregate_iterations(per_iter) ==
    LET agg == agg_loop(AggStart(per_iter), SortedByKey(per_iter))
    IN agg @@
       [nav_unique_file_count |-> unique_file_count(agg.nav_unique_files),
        nav_pct |-> nav_pct(agg.nav_tokens, agg.total_tokens),
        sidecar_ratio |-> sidecar_ratio(agg.fmm_lookups, agg.raw_nav_lookups)]

-----------------------------------------------------------------------------
(* parse_logs.py: parse_experiment_logs *)

\* log_dir.glob("*.log")
is_log_file(fname) == HasAt(fname, Len(fname) - 3, ".log")

\* log_file.stem of a file matched by "*.log"
stem(fname) == IF Len(fname) > 4 THEN SubSeq(fname, 1, Len(fname) - 4) ELSE fname

\* "if name.endswith('.formatted') or name in ('token-alerts', 'watcher'): continue"
is_skipped(name) ==
    \/ HasAt(name, Len(name) - 9, ".formatted")
    \/ name \in {"token-alerts", "watcher"}

\* the loop over the sorted files: the <<name, events>> pairs in insertion order
RECURSIVE parse_files(_, _)
parse_files(files, acc) ==
    IF files = <<>> THEN [raised |-> FALSE, iterations |-> acc]
    ELSE LET name == stem(Head(files)[1])
         IN IF is_skipped(name) THEN parse_files(Tail(files), acc)
            ELSE LET r == parse_log_file(Head(files)[2])
                 IN IF r.raised THEN [raised |-> TRUE, iterations |-> <<>>]
                    ELSE parse_files(Tail(files), Append(acc, <<name, r.events>>))

\* sorted(names) for a set of str
RECURSIVE SortedNames(_)
SortedNames(names) ==
    IF names = {} THEN <<>>
    ELSE LET least == CHOOSE x \in names : \A y \in names : y = x \/ StrLess(x, y)
         IN <<least>> \o SortedNames(names \ {least})

\* sorted(log_dir.glob("*.log")), each file with its lines
sorted_log_files(dir) ==
    LET names == SortedNames({f \in DOMAIN dir : is_log_file(f)})
    IN [i \in 1..Len(names) |-> <<names[i], dir[names[i]]>>]

parse_experiment_logs(dir) == parse_files(sorted_log_files(dir), <<>>)

-----------------------------------------------------------------------------
(* The inputs: log records, log files, directories and event lists *)

InitRecord ==
    [type |-> "system", subtype |-> "init", session_id |-> "sess-1", cwd |-> "/test",
     model |-> "claude-opus-4-5-20251101", tools |-> <<"Read", "Edit", "Bash">>,
     mcp_servers |-> <<>>]

UserRecord == [type |-> "user", session_id |-> "sess-1"]

Usage(input, output) ==
    [input_tokens |-> input, output_tokens |-> output,
     cache_creation_input_tokens |-> 10, cache_read_input_tokens |-> 20]

ToolUse(name, tool_input) ==
    [type |-> "tool_use", name |-> name, id |-> "tool-1", input |-> tool_input]

\* a tool-invocation block that carries no name
NamelessToolUse == [type |-> "tool_use", id |-> "tool-1", input |-> EmptyDict]

TextBlock == [type |-> "text", text |-> "Some text"]

FileTool(name, path) == ToolUse(name, [file_path |-> path])

BashTool(command) == ToolUse("Bash", [command |-> command])

Assistant(msg_id, usage, content) ==
    [type |-> "assistant", session_id |-> "sess-1",
     message |-> [id |-> msg_id, content |-> content, usage |-> usage]]

\* an assistant record without a usage block
AssistantNoUsage(msg_id, content) ==
    [type |-> "assistant", session_id |-> "sess-1",
     message |-> [id |-> msg_id, content |-> content]]

MessageStart(msg_id, usage) ==
    [type |-> "stream_event", session_id |-> "sess-1",
     event |-> [type |-> "message_start", message |-> [id |-> msg_id, usage |-> usage]]]

MessageDelta ==
    [type |-> "stream_event", session_id |-> "sess-1",
     event |-> [type |-> "message_delta", usage |-> [output_tokens |-> 50]]]

ReadMainLine == ObjectLine(Assistant("m1", Usage(500, 100), <<FileTool("Read", "/src/main.py")>>))

EditMainLine == ObjectLine(Assistant("m2", Usage(400, 200), <<FileTool("Edit", "/src/main.py")>>))

\* the lines a single-file directory's log is made of
RawLines ==
    {BlankLine, InvalidLine, ScalarLine,
     ObjectLine(InitRecord), ObjectLine(UserRecord),
     ObjectLine(MessageStart("m2", Usage(400, 0))), ObjectLine(MessageDelta),
     ReadMainLine, EditMainLine,
     ObjectLine(AssistantNoUsage("m3",
         <<TextBlock, FileTool("Edit", "/proj/ISSUES.md"), BashTool("ls -la")>>)),
     ObjectLine(AssistantNoUsage("m4", <<NamelessToolUse>>))}

LogEmpty == <<>>
LogReadA == <<ObjectLine(Assistant("m1", Usage(500, 100), <<FileTool("Read", "/a.py")>>))>>
LogReadAC ==
    <<ObjectLine(Assistant("m1", Usage(300, 100),
          <<FileTool("Read", "/a.py"), FileTool("Read", "/c.py")>>))>>
LogEditOnly == <<ObjectLine(AssistantNoUsage("m1", <<FileTool("Edit", "/src/main.py")>>))>>
LogFmmEdit ==
    <<ObjectLine(Assistant("m1", Usage(100, 50), <<FileTool("Read", "/a.py.fmm")>>)),
      ObjectLine(Assistant("m2", Usage(400, 200), <<FileTool("Edit", "/src/main.py")>>)),
      ObjectLine(Assistant("m3", Usage(200, 50), <<BashTool("pytest -q")>>))>>
LogUser == <<ObjectLine(UserRecord)>>

\* the logs the files of a multi-file directory hold
SampleLogs == {LogEmpty, LogReadA, LogReadAC, LogEditOnly, LogFmmEdit, LogUser}

\* names of iteration logs, and of files parse_experiment_logs passes over
RunFileNames == <<"iter1.log", "iter1-b.log", "iter2.log", "iter3.log", "iter10.log">>
OtherFileNames == {"watcher.log", "iter1.formatted.log", "notes.txt"}

SingleFileDirs == {[f \in {"iter1.log"} |-> lines] : lines \in BoundedSeq(RawLines, MaxLines)}

MultiFileDirs ==
    LET run_names == {RunFileNames[i] : i \in 1..Min(MaxRuns, Len(RunFileNames))}
    IN UNION {UNION {{runs @@ [f \in others |-> LogFmmEdit] : runs \in [rs -> SampleLogs]}
                     : rs \in SUBSET run_names}
              : others \in SUBSET OtherFileNames}

\* the events the extractor makes of one tool-invocation block / one record
ToolEvent(block) == content_events(<<block>>, "sess-1", 0)[1]
RecordEvent(raw) == record_events(raw, 0)[1]

\* the events an event list handed to classify_events is made of
EventShapes ==
    {ToolEvent(FileTool("Edit", "/src/app.py")),
     ToolEvent(FileTool("Edit", "/proj/ISSUES.md")),
     ToolEvent(FileTool("Write", "/repo/.nancy/state.json")),
     ToolEvent(FileTool("Write", "/repo/.nancy/tasks/t1/app.py")),
     ToolEvent(FileTool("Read", "/src/app.py.fmm")),
     ToolEvent(FileTool("Read", "/src/app.py")),
     ToolEvent(BashTool("ls -la")),
     ToolEvent(ToolUse("Foo", EmptyDict)),
     ToolEvent(NamelessToolUse),
     RecordEvent(Assistant("m1", Usage(100, 50), <<>>)),
     RecordEvent(Assistant("m2", Usage(400, 200), <<>>)),
     RecordEvent(Assistant("", Usage(100, 50), <<>>)),
     RecordEvent([type |-> "assistant", session_id |-> "sess-1",
                  message |-> [content |-> <<>>, usage |-> Usage(100, 50)]]),
     RecordEvent(MessageStart("m1", Usage(100, 0))),
     RecordEvent(InitRecord),
     RecordEvent(UserRecord)}

\* the list with seq = 0, 1, ... in list order, as the extractor numbers it
Numbered(shapes) == [i \in 1..Len(shapes) |-> [shapes[i] EXCEPT !.seq = i - 1]]

-----------------------------------------------------------------------------
(* compare.py: analyze_condition on a directory *)

Init ==
    /\ log_dir \in SingleFileDirs \cup MultiFileDirs
    /\ iterations = <<>>
    /\ per_iteration = <<>>
    /\ aggregate = <<>>
    /\ events = <<>>
    /\ first_edit_seq = <<>>
    /\ summary = <<>>
    /\ pc = "start"

\* iterations = parse_experiment_logs(log_dir)
ParseExperimentLogs ==
    /\ pc = "start"
    /\ LET r == parse_experiment_logs(log_dir)
       IN IF r.raised
          THEN pc' = "raised" /\ UNCHANGED iterations
          ELSE pc' = "parsed" /\ iterations' = r.iterations
    /\ UNCHANGED <<log_dir, per_iteration, aggregate, events, first_edit_seq, summary>>

\* one pass of "for name, events in iterations.items()"
AnalyzeIteration ==
    /\ pc = "parsed"
    /\ Len(per_iteration) < Len(iterations)
    /\ LET i == Len(per_iteration) + 1
           name == iterations[i][1]
           r == classify_events(iterations[i][2])
       IN /\ iterations' = [iterations EXCEPT ![i] = <<name, r.events>>]
          /\ IF r.raised
             THEN pc' = "raised" /\ UNCHANGED per_iteration
             ELSE /\ per_iteration' =
                        Append(per_iteration,
                               <<name, [iteration_name |-> name] @@
                                       compute_phase_summary(r.events, r.first_edit_seq)>>)
                  /\ UNCHANGED pc
    /\ UNCHANGED <<log_dir, aggregate, events, first_edit_seq, summary>>

\* aggregate = _aggregate_iterations(per_iteration)
AggregateIterations ==
    /\ pc = "parsed"
    /\ Len(per_iteration) = Len(iterations)
    /\ aggregate' = <<aggregate_iterations(per_iteration)>>
    /\ pc' = "done"
    /\ UNCHANGED <<log_dir, iterations, per_iteration, events, first_edit_seq, summary>>

Next == ParseExperimentLogs \/ AnalyzeIteration \/ AggregateIterations

Spec == Init /\ [][Next]_vars

-----------------------------------------------------------------------------
(* analyze_condition on directories of whole runs *)

\* directories holding any of the first MaxFiles iteration logs, each one of
\* the sample logs
RunDirs ==
    LET run_names == {RunFileNames[i] : i \in 1..Min(MaxFiles, Len(RunFileNames))}
    IN UNION {[rs -> SampleLogs] : rs \in SUBSET run_names}

InitRuns ==
    /\ log_dir \in RunDirs
    /\ iterations = <<>>
    /\ per_iteration = <<>>
    /\ aggregate = <<>>
    /\ events = <<>>
    /\ first_edit_seq = <<>>
    /\ summary = <<>>
    /\ pc = "start"

SpecRuns == InitRuns /\ [][Next]_vars

-----------------------------------------------------------------------------
(* analyze_condition on one log of records *)

\* the records of such a log: assistant records with a usage block and one
\* tool call, with a usage block, a text and two tool calls, and with blocks
\* but no usage block; the stream records of a message start and of a message
\* delta; a user record
RecordLines ==
    {ReadMainLine, EditMainLine,
     ObjectLine(Assistant("m3", Usage(200, 80),
         <<TextBlock, FileTool("Read", "/a.py"), BashTool("ls -la")>>)),
     ObjectLine(AssistantNoUsage("m4", <<FileTool("Edit", "/proj/ISSUES.md"), TextBlock>>)),
     ObjectLine(MessageStart("m2", Usage(400, 0))),
     ObjectLine(MessageDelta),
     ObjectLine(UserRecord)}

RecordDirs == {[f \in {"iter1.log"} |-> lines] : lines \in BoundedSeq(RecordLines, MaxRecords)}

InitRecords ==
    /\ log_dir \in RecordDirs
    /\ iterations = <<>>
    /\ per_iteration = <<>>
    /\ aggregate = <<>>
    /\ events = <<>>
    /\ first_edit_seq = <<>>
    /\ summary = <<>>
    /\ pc = "start"

SpecRecords == InitRecords /\ [][Next]_vars

-----------------------------------------------------------------------------
(* classify_events and compute_phase_summary on an event list *)

InitEvents ==
    /\ log_dir = <<>>
    /\ iterations = <<>>
    /\ per_iteration = <<>>
    /\ aggregate = <<>>
    /\ events \in {Numbered(shapes) : shapes \in BoundedSeq(EventShapes, MaxEvents)}
    /\ first_edit_seq = <<>>
    /\ summary = <<>>
    /\ pc = "events"

\* classified, first_edit_seq = classify_events(events), on a new list or on
\* one classified before
ClassifyEvents ==
    /\ pc \in {"events", "classified"}
    /\ LET r == classify_events(events)
       IN /\ events' = r.events
          /\ IF r.raised
             THEN pc' = "raised" /\ UNCHANGED first_edit_seq
             ELSE pc' = "classified" /\ first_edit_seq' = r.first_edit_seq
    /\ UNCHANGED <<log_dir, iterations, per_iteration, aggregate, summary>>

\* summary = compute_phase_summary(classified, first_edit_seq)
ComputePhaseSummary ==
    /\ pc = "classified"
    /\ summary' = <<compute_phase_summary(events, first_edit_seq)>>
    /\ pc' = "summarized"
    /\ UNCHANGED <<log_dir, iterations, per_iteration, aggregate, events, first_edit_seq>>

NextEvents == ClassifyEvents \/ ComputePhaseSummary

SpecEvents == InitEvents /\ [][NextEvents]_vars

-----------------------------------------------------------------------------
(* classify_events on lists of tool calls *)

\* the tool calls a list handed to classify_events is made of: Bash calls for
\* each rule and for none, with and without a command, calls of known tools
\* without their argument, a tool no rule names, and a block without a name
ToolCallShapes ==
    {ToolEvent(BashTool("some-custom-script")),
     ToolEvent(ToolUse("Bash", EmptyDict)),
     ToolEvent(BashTool("fmm search parse")),
     ToolEvent(BashTool("nancy inbox")),
     ToolEvent(BashTool("npm test")),
     ToolEvent(BashTool("git status")),
     ToolEvent(ToolUse("Read", EmptyDict)),
     ToolEvent(ToolUse("Skill", EmptyDict)),
     ToolEvent(ToolUse("mcp__linear__get_issue", EmptyDict)),
     ToolEvent(ToolUse("SomeNewTool", EmptyDict)),
     ToolEvent(FileTool("Edit", "/src/app.py")),
     ToolEvent(NamelessToolUse),
     ToolEvent(FileTool("Read", "/src/app.py.fmm")),
     ToolEvent(BashTool("grep -r fmm src")),
     ToolEvent(BashTool("rm -rf fmm-search")),
     ToolEvent(BashTool("echo done COMPLETE")),
     ToolEvent(ToolUse("Skill", [skill |-> "nancy-status"])),
     ToolEvent(ToolUse("Task", [prompt |-> "find the parser"])),
     ToolEvent(ToolUse("TodoWrite", EmptyDict)),
     ToolEvent(ToolUse("mcp__context7__get_docs", EmptyDict))}

InitToolCalls ==
    /\ log_dir = <<>>
    /\ iterations = <<>>
    /\ per_iteration = <<>>
    /\ aggregate = <<>>
    /\ events \in {Numbered(shapes) : shapes \in BoundedSeq(ToolCallShapes, MaxCalls)}
    /\ first_edit_seq = <<>>
    /\ summary = <<>>
    /\ pc = "events"

SpecToolCalls == InitToolCalls /\ [][NextEvents]_vars

-----------------------------------------------------------------------------
(* classify_events and compute_phase_summary on lists of token_usage events *)

\* a usage block whose cache counters dwarf its input and output counters
CacheHeavyUsage ==
    [input_tokens |-> 7, output_tokens |-> 3,
     cache_creation_input_tokens |-> 1000, cache_read_input_tokens |-> 2000]

\* the events of such a list: token_usage events with the same id and the
\* same or another payload, with another id, with the id "", without an id,
\* from a stream record, and an edit that starts the work phase
TokenEventShapes ==
    {RecordEvent(Assistant("m1", Usage(100, 50), <<>>)),
     RecordEvent(Assistant("m1", Usage(400, 200), <<>>)),
     RecordEvent(Assistant("m2", CacheHeavyUsage, <<>>)),
     RecordEvent(Assistant("", Usage(100, 50), <<>>)),
     RecordEvent([type |-> "assistant", session_id |-> "sess-1",
                  message |-> [content |-> <<>>, usage |-> Usage(100, 50)]]),
     RecordEvent(MessageStart("m1", Usage(100, 0))),
     ToolEvent(FileTool("Edit", "/src/app.py"))}

InitTokenEvents ==
    /\ log_dir = <<>>
    /\ iterations = <<>>
    /\ per_iteration = <<>>
    /\ aggregate = <<>>
    /\ events \in {Numbered(shapes) : shapes \in BoundedSeq(TokenEventShapes, MaxTokenEvents)}
    /\ first_edit_seq = <<>>
    /\ summary = <<>>
    /\ pc = "events"

SpecTokens == InitTokenEvents /\ [][NextEvents]_vars

-----------------------------------------------------------------------------
(* classify_events and compute_phase_summary on lists of edits *)

\* the events of such a list: edits of a source file, of an internal file, of
\* a file of a worktree under .nancy/tasks/, of an internal file of such a
\* worktree, of a worktree's ISSUES.md, and without a path; a read, a usage
\* report and a test run
EditShapes ==
    {ToolEvent(FileTool("Edit", "/src/app.py")),
     ToolEvent(FileTool("Write", "/repo/.nancy/state.json")),
     ToolEvent(FileTool("Write", "/repo/.nancy/tasks/t1/app.py")),
     ToolEvent(FileTool("Edit", "/repo/.nancy/tasks/t1/.nancy/state.json")),
     ToolEvent(FileTool("Edit", "/repo/.nancy/tasks/t1/ISSUES.md")),
     ToolEvent(ToolUse("Edit", EmptyDict)),
     ToolEvent(FileTool("Read", "/src/app.py")),
     ToolEvent(BashTool("npm test")),
     RecordEvent(Assistant("m1", Usage(100, 50), <<>>))}

InitEdits ==
    /\ log_dir = <<>>
    /\ iterations = <<>>
    /\ per_iteration = <<>>
    /\ aggregate = <<>>
    /\ events \in {Numbered(shapes) : shapes \in BoundedSeq(EditShapes, MaxEdits)}
    /\ first_edit_seq = <<>>
    /\ summary = <<>>
    /\ pc = "events"

SpecEdits == InitEdits /\ [][NextEvents]_vars

-----------------------------------------------------------------------------
(* Properties of classify_events and compute_phase_summary (SpecEvents) *)

Classified == pc \in {"classified", "summarized"}

EventIndex == 1..Len(events)

\* C1: after classify_events, if first_edit_seq = k every event with seq < k
\* has phase nav and every event with seq >= k has phase work; if
\* first_edit_seq is None every event has phase nav.
C1_FirstEditMonotonicity ==
    Classified =>
        IF first_edit_seq # <<>>
        THEN \A i \in EventIndex :
                /\ events[i].seq < first_edit_seq[1] => events[i].phase = "nav"
                /\ events[i].seq >= first_edit_seq[1] => events[i].phase = "work"
        ELSE \A i \in EventIndex : events[i].phase = "nav"

\* a classified list of three events whose boundary is its second event
C1_Witness ==
    /\ pc = "classified"
    /\ Len(events) = 3
    /\ first_edit_seq = <<1>>
    /\ events[1].phase = "nav" /\ events[2].phase = "work" /\ events[3].phase = "work"

\* the seqs of the Edit/Write tool calls whose path matches no exclusion rule
QualifyingEdits ==
    {events[i].seq : i \in {j \in EventIndex :
        /\ events[j].type = "tool_call"
        /\ events[j].tool_name \in {"Edit", "Write"}
        /\ ~is_excluded_file(OrEmpty(events[j].file_path))}}

IsEditOf(event, path) ==
    event.type = "tool_call" /\ event.tool_name = "Edit" /\ event.file_path = path

\* C2: first_edit_seq is the smallest seq among the Edit/Write tool calls whose
\* path matches no exclusion rule, and None exactly when there is none; an
\* earlier Edit of an excluded path does not stop the scan: [Edit
\* /proj/ISSUES.md (seq 0), Edit /src/app.py (seq 1)] gives 1.
C2_FirstEditIsSmallestQualifying ==
    Classified =>
        /\ first_edit_seq = <<>> <=> QualifyingEdits = {}
        /\ first_edit_seq # <<>> =>
              /\ first_edit_seq[1] \in QualifyingEdits
              /\ \A q \in QualifyingEdits : first_edit_seq[1] <= q
        /\ (/\ Len(events) >= 2
            /\ IsEditOf(events[1], "/proj/ISSUES.md")
            /\ IsEditOf(events[2], "/src/app.py")) => first_edit_seq = <<1>>

\* the list of the example, classified
C2_Witness ==
    /\ pc = "classified"
    /\ Len(events) = 2
    /\ IsEditOf(events[1], "/proj/ISSUES.md")
    /\ IsEditOf(events[2], "/src/app.py")
    /\ first_edit_seq = <<1>>

\* the places of the token_usage events that carry message id m
WithMessageId(m) ==
    {i \in EventIndex : events[i].type = "token_usage" /\ events[i].message_id = m}

\* the list without the events at the places skip
RECURSIVE Without(_, _, _)
Without(evs, i, skip) ==
    IF i > Len(evs) THEN <<>>
    ELSE (IF i \in skip THEN <<>> ELSE <<evs[i]>>) \o Without(evs, i + 1, skip)

C7_SidecarReadIsFmmNavigation ==
    \A i \in EventIndex :
        (/\ "category" \in DOMAIN events[i]
         /\ events[i].type = "tool_call"
         /\ events[i].tool_name = "Read"
         /\ Contains(OrEmpty(events[i].file_path), ".fmm"))
            => events[i].category = "fmm_navigation"

\* a classified Read of /src/app.py.fmm next to a classified plain Read
C7_Witness ==
    /\ pc = "classified"
    /\ \E i, j \in EventIndex :
          /\ events[i].type = "tool_call" /\ events[i].tool_name = "Read"
          /\ events[i].file_path = "/src/app.py.fmm"
          /\ events[i].category = "fmm_navigation"
          /\ events[j].type = "tool_call" /\ events[j].tool_name = "Read"
          /\ events[j].category = "navigation"

\* the event as the extractor made it: without the classifier's two fields
Unclassified(event) == [k \in DOMAIN event \ {"category", "phase"} |-> event[k]]

\* C8: classification is a function of the event list and is idempotent:
\* classifying the extractor's list again gives the categories, phases and
\* first_edit_seq at hand, and so does classifying the classified list.
C8_DeterministicIdempotent ==
    Classified =>
        LET again == classify_events(events)
            fresh == classify_events([i \in EventIndex |-> Unclassified(events[i])])
        IN /\ ~again.raised /\ again.events = events /\ again.first_edit_seq = first_edit_seq
           /\ ~fresh.raised /\ fresh.events = events /\ fresh.first_edit_seq = first_edit_seq

\* a classified list with an excluded edit, a boundary and a nav-phase event
C8_Witness ==
    /\ pc = "classified"
    /\ Len(events) = 3
    /\ first_edit_seq = <<2>>
    /\ events[1].category = "navigation"
    /\ events[2].category = "task_work" /\ events[2].phase = "nav"
    /\ events[3].category = "task_work" /\ events[3].phase = "work"

-----------------------------------------------------------------------------
(* Properties of analyze_condition (Spec) *)

RunIndex == 1..Len(per_iteration)

\* the phase summary of the i-th analyzed run
SummaryOf(i) == per_iteration[i][2]

\* the directory of the end-to-end scenario: one log holding an init record,
\* an assistant record with usage 500/100 and a Read of /src/main.py, and an
\* assistant record with usage 400/200 and an Edit of /src/main.py
EndToEndDir == [f \in {"iter1.log"} |-> <<ObjectLine(InitRecord), ReadMainLine, EditMainLine>>]

\* C3 as stated: the scenario yields nav-phase token_total 600, work-phase
\* token_total 600 and has_edits = True.
C3_UsageOfEditMessageInWorkPhase ==
    (log_dir = EndToEndDir /\ Len(per_iteration) = 1) =>
        /\ SummaryOf(1).nav_phase.token_total = 600
        /\ SummaryOf(1).work_phase.token_total = 600
        /\ SummaryOf(1).has_edits = TRUE

\* C3 as amended: the events are init (seq 0), token_usage (1), Read (2),
\* token_usage (3), Edit (4); first_edit_seq is 4, so the usage event of the
\* message that carries the edit (seq 3) is in the nav phase: nav-phase
\* token_total 1200, work-phase token_total 0, has_edits = True.
C3_UsageOfEditMessageInNavPhase ==
    (log_dir = EndToEndDir /\ Len(per_iteration) = 1) =>
        /\ SummaryOf(1).first_edit_seq = <<4>>
        /\ SummaryOf(1).nav_phase.token_total = 1200
        /\ SummaryOf(1).work_phase.token_total = 0
        /\ SummaryOf(1).totals.token_total = 1200
        /\ SummaryOf(1).has_edits = TRUE
        /\ iterations[1][2][4].type = "token_usage" /\ iterations[1][2][4].phase = "nav"
        /\ iterations[1][2][5].tool_name = "Edit" /\ iterations[1][2][5].phase = "work"

\* the scenario analyzed to the end
C3_Witness ==
    /\ log_dir = EndToEndDir
    /\ pc = "done"
    /\ aggregate[1].has_edits
    /\ aggregate[1].total_tokens = 1200

\* the nav-phase file sets of the analyzed runs
NavFileSets == {SummaryOf(i).nav_phase.unique_files : i \in RunIndex}

\* C5: nav_unique_file_count of the aggregate is the size of the union of the
\* runs' nav-phase unique_files, not the sum of their sizes: runs touching
\* {/a.py} and {/a.py, /c.py} give 2.
C5_UniqueFilesUnion ==
    pc = "done" =>
        /\ aggregate[1].nav_unique_file_count = Cardinality(UNION NavFileSets)
        /\ (Len(per_iteration) = 2 /\ NavFileSets = {{"/a.py"}, {"/a.py", "/c.py"}})
              => aggregate[1].nav_unique_file_count = 2

\* the two runs of the example, aggregated
C5_Witness ==
    /\ pc = "done"
    /\ Len(per_iteration) = 2
    /\ NavFileSets = {{"/a.py"}, {"/a.py", "/c.py"}}
    /\ aggregate[1].nav_unique_file_count = 2

FmmLookups == SumSeq([i \in RunIndex |-> SummaryOf(i).nav_phase.fmm_lookups])
RawNavLookups == SumSeq([i \in RunIndex |-> SummaryOf(i).nav_phase.raw_nav_lookups])

\* C6: sidecar_ratio is "n/a" exactly when fmm_lookups + raw_nav_lookups summed
\* over the runs is 0, and is "<fmm_lookups>/<fmm_lookups + raw_nav_lookups>"
\* otherwise (1 and 2 give "1/3"); it is never "0/0".
C6_RatioSentinel ==
    pc = "done" =>
        /\ aggregate[1].sidecar_ratio = "n/a" <=> FmmLookups + RawNavLookups = 0
        /\ FmmLookups + RawNavLookups > 0 =>
              aggregate[1].sidecar_ratio =
                  IntToStr(FmmLookups) \o "/" \o IntToStr(FmmLookups + RawNavLookups)
        /\ (FmmLookups = 1 /\ RawNavLookups = 2) => aggregate[1].sidecar_ratio = "1/3"
        /\ aggregate[1].sidecar_ratio # "0/0"

\* two runs, one of them with an edit, and no navigation lookup at all
C6_Witness ==
    /\ pc = "done"
    /\ Len(per_iteration) = 2
    /\ aggregate[1].has_edits
    /\ aggregate[1].fmm_lookups = 0 /\ aggregate[1].raw_nav_lookups = 0
    /\ aggregate[1].sidecar_ratio = "n/a"

\* C9: the events parse_log_file returns carry seq 0, 1, ..., n-1 in list
\* order, whatever their kinds.
C9_SeqIsListPosition ==
    \A r \in 1..Len(iterations) :
        \A k \in 1..Len(iterations[r][2]) : iterations[r][2][k].seq = k - 1

\* a parsed log of at least four events of at least three kinds
C9_Witness ==
    /\ pc = "parsed"
    /\ per_iteration = <<>>
    /\ \E r \in 1..Len(iterations) :
          /\ Len(iterations[r][2]) >= 4
          /\ Cardinality({iterations[r][2][k].type : k \in 1..Len(iterations[r][2])}) >= 3

IsSkippedLine(line) == line.json \in {"blank", "invalid"}

\* the directory with the blank lines and the lines that are not JSON removed
WithoutSkippedLines(dir) ==
    [f \in DOMAIN dir |-> SelectSeq(dir[f], LAMBDA line : ~IsSkippedLine(line))]

\* C10: blank lines and lines that are not valid JSON are not fatal and have no
\* effect: parsing yields the events, with their seq values, that parsing
\* the log without those lines yields (and fails only if that fails).
C10_SkippedLinesHaveNoEffect ==
    LET clean == parse_experiment_logs(WithoutSkippedLines(log_dir))
    IN /\ (pc = "parsed" /\ per_iteration = <<>>) =>
              ~clean.raised /\ clean.iterations = iterations
       /\ (pc = "raised" /\ iterations = <<>>) => clean.raised
       /\ (\A f \in DOMAIN log_dir : \A k \in 1..Len(log_dir[f]) : IsSkippedLine(log_dir[f][k]))
              => pc # "raised"

\* a parsed log that starts with a blank line and a line that is not JSON
C10_Witness ==
    /\ pc = "parsed"
    /\ "iter1.log" \in DOMAIN log_dir
    /\ Len(log_dir["iter1.log"]) = 3
    /\ log_dir["iter1.log"][1] = BlankLine
    /\ log_dir["iter1.log"][2] = InvalidLine
    /\ Len(iterations) = 1
    /\ Len(iterations[1][2]) = 2

IsMessageDelta(line) ==
    /\ line.json = "object"
    /\ Get(line.raw, "type", None) = "stream_event"
    /\ Get(Get(line.raw, "event", EmptyDict), "type", None) = "message_delta"

\* the directory with the message-delta stream records removed
WithoutMessageDeltas(dir) ==
    [f \in DOMAIN dir |-> SelectSeq(dir[f], LAMBDA line : ~IsMessageDelta(line))]

\* C11: a stream record whose nested event type is message_delta emits no
\* event and does not advance seq: parsing yields the events, with their seq
\* values, that parsing the log without those records yields (and fails only
\* if that fails).
C11_MessageDeltaIgnored ==
    LET clean == parse_experiment_logs(WithoutMessageDeltas(log_dir))
    IN /\ (pc = "parsed" /\ per_iteration = <<>>) =>
              ~clean.raised /\ clean.iterations = iterations
       /\ (pc = "raised" /\ iterations = <<>>) => clean.raised

\* a parsed log with a message-delta record between two assistant records
C11_Witness ==
    /\ pc = "parsed"
    /\ per_iteration = <<>>
    /\ "iter1.log" \in DOMAIN log_dir
    /\ log_dir["iter1.log"] = <<ReadMainLine, ObjectLine(MessageDelta), EditMainLine>>
    /\ Len(iterations[1][2]) = 4
    /\ iterations[1][2][3].seq = 2 /\ iterations[1][2][3].message_id = "m2"

-----------------------------------------------------------------------------
(* Properties of _classify_tool_call (SpecToolCalls) *)

Categories == {"navigation", "fmm_navigation", "task_work", "boilerplate", "token_usage", "other"}

\* C12: classification never errors: classify_events returns for every list
\* of events the extractor can emit, tool calls with an unknown name, a null
\* name, or no command or file path included, and every event then carries
\* one category of the six and one phase of the two.
C12_ClassificationNeverErrors ==
    /\ pc # "raised"
    /\ Classified =>
          \A i \in EventIndex :
              events[i].category \in Categories /\ events[i].phase \in {"nav", "work"}

IsBashCall(event) == event.type = "tool_call" /\ event.tool_name = "Bash"

\* C20: a Bash tool call is classified fmm_navigation, boilerplate, task_work
\* or navigation, never other; one whose command matches no rule
\* ("some-custom-script") or is absent is classified navigation.
C20_BashDefaultsToNavigation ==
    \A i \in EventIndex :
        (IsBashCall(events[i]) /\ "category" \in DOMAIN events[i]) =>
            /\ events[i].category \in {"fmm_navigation", "boilerplate", "task_work", "navigation"}
            /\ events[i].command \in {None, "some-custom-script"}
                  => events[i].category = "navigation"

\* a classified list of a Bash call without a command and one with a command
\* that matches no rule
C20_Witness ==
    /\ pc = "classified"
    /\ Len(events) = 2
    /\ IsBashCall(events[1]) /\ events[1].command = None
    /\ IsBashCall(events[2]) /\ events[2].command = "some-custom-script"
    /\ events[1].category = "navigation" /\ events[2].category = "navigation"

-----------------------------------------------------------------------------
(* Properties of analyze_condition on whole runs (SpecRuns) *)

\* the lists that hold the entries of seq in another order
Reorderings(seq) ==
    LET n == Len(seq)
    IN {[i \in 1..n |-> seq[f[i]]] :
           f \in {g \in [1..n -> 1..n] : \A a, b \in 1..n : g[a] = g[b] => a = b}}

\* C13: the aggregate is the same for every insertion order of per_iteration,
\* in every field: the sums, the unique-file union, has_edits,
\* first_edit_iteration, first_edit_pct, nav_pct and sidecar_ratio.
C13_AggregateIgnoresInsertionOrder ==
    pc = "done" =>
        \A reordered \in Reorderings(per_iteration) :
            aggregate_iterations(reordered) = aggregate[1]

\* three runs, two of them with edits, inserted in another order than that of
\* their names
C13_Witness ==
    /\ pc = "done"
    /\ Len(per_iteration) = 3
    /\ per_iteration[1][1] = "iter1-b" /\ per_iteration[2][1] = "iter1"
    /\ SummaryOf(1).has_edits /\ SummaryOf(2).has_edits
    /\ SummaryOf(1).totals.token_total # SummaryOf(2).totals.token_total
    /\ aggregate[1].first_edit_iteration = "iter1"

\* the analyzed runs that have a qualifying edit
RunsWithEdits == {i \in RunIndex : SummaryOf(i).has_edits}

\* C14: first_edit_iteration is the smallest name, in the order of str, among
\* the runs with has_edits (None if there is none), and first_edit_pct is that
\* run's nav-phase token_total over its token_total as a rounded percent, or
\* None when that run's token_total is 0, whatever the later runs hold.
C14_FirstEditRunOnly ==
    pc = "done" =>
        IF RunsWithEdits = {}
        THEN /\ aggregate[1].first_edit_iteration = None
             /\ aggregate[1].first_edit_pct = <<>>
             /\ ~aggregate[1].has_edits
        ELSE LET first == CHOOSE i \in RunsWithEdits :
                             \A j \in RunsWithEdits \ {i} :
                                 StrLess(per_iteration[i][1], per_iteration[j][1])
                 nav == SummaryOf(first).nav_phase.token_total
                 total == SummaryOf(first).totals.token_total
             IN /\ aggregate[1].has_edits
                /\ aggregate[1].first_edit_iteration = per_iteration[first][1]
                /\ total = 0 => aggregate[1].first_edit_pct = <<>>
                /\ total > 0 => aggregate[1].first_edit_pct = <<round_pct(nav, total)>>
                /\ (nav = 750 /\ total = 1000) => aggregate[1].first_edit_pct = <<75>>

\* the first run with an edit has no tokens and a later run with an edit has
\* some: no percentage
C14_Witness ==
    /\ pc = "done"
    /\ aggregate[1].first_edit_iteration = "iter1"
    /\ aggregate[1].first_edit_pct = <<>>
    /\ \E i, j \in RunsWithEdits :
          /\ per_iteration[i][1] = "iter1" /\ SummaryOf(i).totals.token_total = 0
          /\ per_iteration[j][1] = "iter2" /\ SummaryOf(j).totals.token_total > 0

NavTokens == SumSeq([i \in RunIndex |-> SummaryOf(i).nav_phase.token_total])
TotalTokens == SumSeq([i \in RunIndex |-> SummaryOf(i).totals.token_total])

\* C15: nav_pct is 0 when the runs' token_total figures sum to 0, no run at
\* all included, and round(nav_tokens / total_tokens * 100) otherwise (750 of
\* 1000 is 75, 1750 of 2000 is 88); aggregation always returns a percentage.
C15_NavPctGuarded ==
    pc = "done" =>
        /\ aggregate[1].nav_tokens = NavTokens
        /\ aggregate[1].total_tokens = TotalTokens
        /\ aggregate[1].nav_pct \in 0..100
        /\ TotalTokens = 0 => aggregate[1].nav_pct = 0
        /\ TotalTokens > 0 => aggregate[1].nav_pct = round_pct(NavTokens, TotalTokens)
        /\ (NavTokens = 750 /\ TotalTokens = 1000) => aggregate[1].nav_pct = 75
        /\ (NavTokens = 1750 /\ TotalTokens = 2000) => aggregate[1].nav_pct = 88

\* the directory without any log, aggregated
C15_Witness ==
    /\ pc = "done"
    /\ DOMAIN log_dir = {}
    /\ aggregate[1].iteration_count = 0
    /\ aggregate[1].total_tokens = 0
    /\ aggregate[1].nav_pct = 0

\* the run names parse_experiment_logs is to return for the directory
RunNames(dir) == {stem(f) : f \in {g \in DOMAIN dir : is_log_file(g) /\ ~is_skipped(stem(g))}}

\* C16: parse_experiment_logs keys each run by its file's base name without
\* ".log" and iterates the runs in the order of str of that run name, for
\* every set of log file names.
C16_RunsInNameOrder ==
    (pc = "parsed") =>
        /\ {iterations[i][1] : i \in 1..Len(iterations)} = RunNames(log_dir)
        /\ Len(iterations) = Cardinality(RunNames(log_dir))
        /\ \A i, j \in 1..Len(iterations) :
              i < j => StrLess(iterations[i][1], iterations[j][1])

\* the places of the token_usage events of evs that carry an id (other than
\* None and "") which no earlier event of evs carries, or carry none
CountedPlaces(evs) ==
    {i \in 1..Len(evs) :
        /\ evs[i].type = "token_usage"
        /\ \/ ~Truthy(evs[i].message_id)
           \/ \A j \in 1..(i - 1) :
                 ~(evs[j].type = "token_usage" /\ evs[j].message_id = evs[i].message_id)}

\* input + output tokens of the events of evs at the places counted
InputOutputAt(evs, counted) ==
    SumSeq([i \in 1..Len(evs) |->
               IF i \in counted THEN evs[i].input_tokens + evs[i].output_tokens ELSE 0])

\* the message ids of the token_usage events of the r-th run
MessageIdsOf(r) ==
    {iterations[r][2][k].message_id :
        k \in {n \in 1..Len(iterations[r][2]) : iterations[r][2][n].type = "token_usage"}}

\* C19: deduplication does not cross runs: each run's token_total counts the
\* first event of every message id of that run, whatever ids the other runs
\* of the condition hold, and total_tokens of the condition is the sum of
\* these: two runs with one event of id m1 each, of 600 and 400 tokens, give
\* 600, 400 and 1000.
C19_DedupIsPerRun ==
    pc = "done" =>
        /\ \A r \in RunIndex :
              SummaryOf(r).totals.token_total =
                  InputOutputAt(iterations[r][2], CountedPlaces(iterations[r][2]))
        /\ aggregate[1].total_tokens =
              SumSeq([r \in RunIndex |->
                         InputOutputAt(iterations[r][2], CountedPlaces(iterations[r][2]))])

\* two runs that hold one token_usage event each, both with message id m1
C19_Witness ==
    /\ pc = "done"
    /\ Len(per_iteration) = 2
    /\ MessageIdsOf(1) = {"m1"} /\ MessageIdsOf(2) = {"m1"}
    /\ {SummaryOf(1).totals.token_total, SummaryOf(2).totals.token_total} = {600, 400}
    /\ aggregate[1].total_tokens = 1000

-----------------------------------------------------------------------------
(* Properties of the token totals of compute_phase_summary (SpecTokens) *)

\* the event's counter for a key of the summary's token dicts
TokenField(event, key) ==
    IF key = "input" THEN event.input_tokens
    ELSE IF key = "output" THEN event.output_tokens
    ELSE IF key = "cache_create" THEN event.cache_creation_input_tokens
    ELSE event.cache_read_input_tokens

\* the token dict summed over the events of evs at places
TokensAt(evs, places) ==
    [key \in TokenKeys |->
        SumSeq([i \in 1..Len(evs) |-> IF i \in places THEN TokenField(evs[i], key) ELSE 0])]

InPhase(evs, phase) == {i \in 1..Len(evs) : evs[i].phase = phase}

\* the list with the cache counters of its token_usage events set to zero
WithoutCacheTokens(evs) ==
    [i \in 1..Len(evs) |->
        IF evs[i].type = "token_usage"
        THEN [evs[i] EXCEPT !.cache_creation_input_tokens = 0, !.cache_read_input_tokens = 0]
        ELSE evs[i]]

\* C17: each token_total of a phase summary (nav phase, work phase, totals)
\* is the sum of the counted input and output tokens only; the cache tokens
\* are summed in their own components and change no token_total.
C17_TokenTotalIsInputPlusOutput ==
    pc = "summarized" =>
        LET s == summary[1]
            counted == CountedPlaces(events)
            plain == compute_phase_summary(WithoutCacheTokens(events), first_edit_seq)
        IN /\ s.totals.tokens = TokensAt(events, counted)
           /\ s.nav_phase.tokens = TokensAt(events, counted \cap InPhase(events, "nav"))
           /\ s.work_phase.tokens = TokensAt(events, counted \cap InPhase(events, "work"))
           /\ s.totals.token_total = s.totals.tokens["input"] + s.totals.tokens["output"]
           /\ s.nav_phase.token_total =
                 s.nav_phase.tokens["input"] + s.nav_phase.tokens["output"]
           /\ s.work_phase.token_total =
                 s.work_phase.tokens["input"] + s.work_phase.tokens["output"]
           /\ s.totals.token_total = plain.totals.token_total
           /\ s.nav_phase.token_total = plain.nav_phase.token_total
           /\ s.work_phase.token_total = plain.work_phase.token_total

\* a summarized run whose cache counters are far larger than its totals, with
\* tokens in both phases
C17_Witness ==
    /\ pc = "summarized"
    /\ summary[1].totals.tokens["cache_create"] = 1010
    /\ summary[1].totals.tokens["cache_read"] = 2020
    /\ summary[1].totals.token_total = 160
    /\ summary[1].nav_phase.token_total > 0
    /\ summary[1].work_phase.token_total > 0

\* CountedPlaces with only None taken as the absence of an id
CountedPlacesOfAnyId(evs) ==
    {i \in 1..Len(evs) :
        /\ evs[i].type = "token_usage"
        /\ \/ evs[i].message_id = None
           \/ \A j \in 1..(i - 1) :
                 ~(evs[j].type = "token_usage" /\ evs[j].message_id = evs[i].message_id)}

\* C18 as stated: a token_usage event counts if and only if it has no
\* message_id or no earlier event of the run has the same message_id, for
\* any message_id value.
C18_AnyIdSuppressesLaterEvents ==
    pc = "summarized" =>
        /\ summary[1].totals.tokens = TokensAt(events, CountedPlacesOfAnyId(events))
        /\ summary[1].nav_phase.tokens =
              TokensAt(events, CountedPlacesOfAnyId(events) \cap InPhase(events, "nav"))
        /\ summary[1].work_phase.tokens =
              TokensAt(events, CountedPlacesOfAnyId(events) \cap InPhase(events, "work"))

\* C18 as amended: a token_usage event counts if and only if its message_id
\* is None or "", or no earlier event of the run has the same message_id; a
\* non-empty id, once seen, suppresses every later event with that id
\* whatever its payload or phase, and events whose id is None or "" are
\* always counted, each in its own phase.
C18_NonEmptyIdSuppressesLaterEvents ==
    pc = "summarized" =>
        /\ summary[1].totals.tokens = TokensAt(events, CountedPlaces(events))
        /\ summary[1].nav_phase.tokens =
              TokensAt(events, CountedPlaces(events) \cap InPhase(events, "nav"))
        /\ summary[1].work_phase.tokens =
              TokensAt(events, CountedPlaces(events) \cap InPhase(events, "work"))
        /\ (/\ Len(events) = 2
            /\ \A i \in EventIndex :
                  /\ events[i].type = "token_usage"
                  /\ events[i].message_id = ""
                  /\ events[i].input_tokens + events[i].output_tokens = 150)
              => summary[1].totals.token_total = 300

\* a summarized run where an event of id m1 in the nav phase suppresses one
\* of id m1 with another payload in the work phase
C18_Witness ==
    /\ pc = "summarized"
    /\ Len(events) = 3
    /\ events[1].type = "token_usage" /\ events[1].message_id = "m1"
    /\ events[1].phase = "nav" /\ events[1].input_tokens = 100
    /\ events[3].type = "token_usage" /\ events[3].message_id = "m1"
    /\ events[3].phase = "work" /\ events[3].input_tokens = 400
    /\ summary[1].totals.token_total = 150
    /\ summary[1].work_phase.token_total = 0

-----------------------------------------------------------------------------
(* The twelve ordered rules for tool calls (SpecToolCalls) *)

\* the category of the lowest-numbered rule, of the twelve, that the tool
\* call with this name, file path and command satisfies
FirstMatchingRule(name, fp, cmd) ==
    LET low == Lower(cmd)
    IN IF \/ name = "mcp__mcp-files__read_symbol"
          \/ name = "Read" /\ Contains(fp, ".fmm")
          \/ /\ name = "Bash" /\ Contains(low, "fmm")
             /\ (Contains(low, "search") \/ Contains(low, "grep"))
       THEN "fmm_navigation"
       ELSE IF name \in {"TodoWrite", "KillShell"} THEN "boilerplate"
       ELSE IF name = "Skill"
       THEN IF Contains(cmd, "check-directives") \/ Contains(cmd, "nancy")
            THEN "boilerplate" ELSE "other"
       ELSE IF name = "Bash" /\ matches_boilerplate_bash(cmd) THEN "boilerplate"
       ELSE IF name \in {"Edit", "Write"} THEN "task_work"
       ELSE IF name = "Bash" /\ matches_task_bash(cmd) THEN "task_work"
       ELSE IF name \in {"Read", "Grep", "Glob", "WebFetch", "Task", "TaskOutput"}
       THEN "navigation"
       ELSE IF name = "Bash" /\ matches_nav_bash(cmd) THEN "navigation"
       ELSE IF name # None /\ StartsWith(name, "mcp__linear") THEN "boilerplate"
       ELSE IF name # None /\ StartsWith(name, "mcp__context7") THEN "navigation"
       ELSE IF name = "Bash" THEN "navigation"
       ELSE "other"

\* the events of the list that are tool calls
ToolCalls == {i \in EventIndex : events[i].type = "tool_call"}

\* C21: every tool_call event gets the category of the lowest-numbered rule,
\* among the twelve ordered rules, whose condition it satisfies, for every
\* tool name, file path and command.
C21_FirstMatchingRuleWins ==
    /\ pc # "raised"
    /\ Classified =>
          \A i \in ToolCalls :
              events[i].category =
                  FirstMatchingRule(events[i].tool_name,
                                    OrEmpty(events[i].file_path), OrEmpty(events[i].command))

-----------------------------------------------------------------------------
(* Properties of the first-edit boundary (SpecEdits) *)

\* the Edit and Write tool calls of the list
EditCalls ==
    {i \in EventIndex : events[i].type = "tool_call" /\ events[i].tool_name \in {"Edit", "Write"}}

PathOf(i) == OrEmpty(events[i].file_path)

\* the path matches one of the exclusion rules that name a file
MatchesFileRule(path) ==
    \/ SearchAtEnd(path, "ISSUES.md")
    \/ SearchAtEnd(path, "COMPLETE")
    \/ SearchAtEnd(path, "config.json")
    \/ SearchAtEnd(path, "token-usage.json")

\* the places of path where ".nancy/" starts
InternalDirAt(path) == {k \in 1..Len(path) : HasAt(path, k, ".nancy/")}

\* the edit at place i qualifies as the first edit: it is the boundary unless
\* an earlier event is
Qualifies(i) == first_edit_seq # <<>> /\ first_edit_seq[1] <= events[i].seq

\* C22 as stated: an Edit or Write to a path under .nancy/ does not qualify
\* as the first edit, and one to a file under .nancy/tasks/ that matches no
\* other exclusion rule does, for every such path.
C22_TasksPathsAlwaysQualify ==
    Classified =>
        \A i \in EditCalls :
            /\ (Contains(PathOf(i), ".nancy/") /\ ~Contains(PathOf(i), ".nancy/tasks/"))
                  => first_edit_seq # <<events[i].seq>>
            /\ (Contains(PathOf(i), ".nancy/tasks/") /\ ~MatchesFileRule(PathOf(i)))
                  => Qualifies(i)

\* C22 as amended: an Edit or Write to a path in which some ".nancy/" is not
\* directly followed by "tasks/" does not qualify as the first edit, a
\* .nancy/ directory inside a worktree under .nancy/tasks/ included; one to a
\* path in which every ".nancy/" is directly followed by "tasks/", and which
\* matches no other exclusion rule, does.
C22_InternalPathsExcludedTasksPathsNot ==
    Classified =>
        \A i \in EditCalls :
            /\ (\E k \in InternalDirAt(PathOf(i)) : ~HasAt(PathOf(i), k, ".nancy/tasks/"))
                  => first_edit_seq # <<events[i].seq>>
            /\ (/\ InternalDirAt(PathOf(i)) # {}
                /\ \A k \in InternalDirAt(PathOf(i)) : HasAt(PathOf(i), k, ".nancy/tasks/")
                /\ ~MatchesFileRule(PathOf(i)))
                  => Qualifies(i)

\* a classified list of a write under .nancy/, an edit of an internal file of
\* a worktree and a write to a worktree file, which is the boundary
C22_Witness ==
    /\ pc = "classified"
    /\ Len(events) = 3
    /\ EditCalls = {1, 2, 3}
    /\ PathOf(1) = "/repo/.nancy/state.json"
    /\ PathOf(2) = "/repo/.nancy/tasks/t1/.nancy/state.json"
    /\ PathOf(3) = "/repo/.nancy/tasks/t1/app.py"
    /\ first_edit_seq = <<2>>

-----------------------------------------------------------------------------
(* Properties of the extractor on one log of records (SpecRecords) *)

\* the records of the log, and the events of its run
Records == log_dir["iter1.log"]
RunEvents == iterations[1][2]

IsAssistantLine(line) == line.json = "object" /\ Get(line.raw, "type", None) = "assistant"

\* the number of events the records before the k-th gave
EventsBefore(k) == Len(parse_log_file(SubSeq(Records, 1, k - 1)).events)

\* the tool-invocation and text blocks of an assistant record, in their order
BlocksOf(line) ==
    SelectSeq(Get(Get(line.raw, "message", EmptyDict), "content", <<>>),
              LAMBDA block : Get(block, "type", None) \in {"tool_use", "text"})

\* C23: for one assistant record the extractor emits the token_usage event,
\* if the record has a usage block, before any event of its content blocks,
\* then one event per tool-invocation or text block in the order of the
\* blocks; the usage event's seq is smaller than that of every tool_call of
\* the same message.
C23_UsageBeforeContentEvents ==
    Len(iterations) = 1 =>
        \A k \in 1..Len(Records) :
            IsAssistantLine(Records[k]) =>
                LET msg == Records[k].raw.message
                    blocks == BlocksOf(Records[k])
                    u == IF HasUsage(msg) THEN 1 ELSE 0
                    at == EventsBefore(k)
                IN /\ EventsBefore(k + 1) = at + u + Len(blocks)
                   /\ u = 1 =>
                         /\ RunEvents[at + 1].type = "token_usage"
                         /\ RunEvents[at + 1].message_id = msg.id
                   /\ \A b \in 1..Len(blocks) :
                         LET e == RunEvents[at + u + b]
                         IN /\ blocks[b].type = "tool_use" =>
                                  e.type = "tool_call" /\ e.tool_name = blocks[b].name
                            /\ blocks[b].type = "text" => e.type = "assistant_text"
                            /\ u = 1 => RunEvents[at + 1].seq < e.seq

\* a parsed log whose second record has a usage block, a text and two tool
\* calls: events 1..4 after the event of the first record
C23_Witness ==
    /\ pc = "parsed"
    /\ Len(iterations) = 1
    /\ Len(Records) = 2
    /\ Records[1] = ObjectLine(UserRecord)
    /\ Len(BlocksOf(Records[2])) = 3
    /\ Len(RunEvents) = 5
    /\ RunEvents[2].type = "token_usage" /\ RunEvents[2].seq = 1
    /\ RunEvents[3].type = "assistant_text"
    /\ RunEvents[4].type = "tool_call" /\ RunEvents[4].tool_name = "Read"
    /\ RunEvents[5].type = "tool_call" /\ RunEvents[5].tool_name = "Bash"

\* the assistant records with a usage block that are the first such record of
\* their message id
FirstReports ==
    {k \in 1..Len(Records) :
        /\ IsAssistantLine(Records[k])
        /\ HasUsage(Records[k].raw.message)
        /\ \A j \in 1..(k - 1) :
              ~(/\ IsAssistantLine(Records[j])
                /\ HasUsage(Records[j].raw.message)
                /\ Records[j].raw.message.id = Records[k].raw.message.id)}

\* the output tokens the assistant records report, each message once
ReportedOutputTokens ==
    SumSeq([k \in 1..Len(Records) |->
               IF k \in FirstReports THEN Records[k].raw.message.usage.output_tokens ELSE 0])

\* C24: no output tokens are lost: the output tokens that the usage block of
\* each message's assistant record reports are in the run's totals exactly
\* once, also when a stream message-start record with the same message id
\* comes earlier in the run (the message-start records of the logs report 0
\* output tokens).
C24_AssistantOutputTokensCounted ==
    Len(per_iteration) = 1 =>
        SummaryOf(1).totals.tokens["output"] = ReportedOutputTokens

-----------------------------------------------------------------------------
(* The events after classification (SpecRuns) *)

\* the runs as the extractor returns them for the directory
Extracted == parse_experiment_logs(log_dir).iterations

\* C25: classify_events only adds the fields category and phase: the number
\* and the order of a run's events, and every event's seq, type and other
\* fields set by the extractor, are as the extractor left them; a run not yet
\* classified is untouched, and compute_phase_summary and the aggregation
\* leave the classified events as classify_events returned them.
C25_ClassifierOnlyAddsTwoFields ==
    pc # "start" =>
        LET fresh == Extracted
        IN /\ Len(iterations) = Len(fresh)
           /\ \A r \in 1..Len(iterations) :
                 /\ iterations[r][1] = fresh[r][1]
                 /\ Len(iterations[r][2]) = Len(fresh[r][2])
                 /\ \A k \in 1..Len(iterations[r][2]) :
                       LET e == iterations[r][2][k]
                       IN IF r <= Len(per_iteration)
                          THEN /\ DOMAIN e = DOMAIN fresh[r][2][k] \cup {"category", "phase"}
                               /\ Unclassified(e) = fresh[r][2][k]
                          ELSE e = fresh[r][2][k]
                 /\ pc = "done" => iterations[r][2] = classify_events(fresh[r][2]).events

\* three runs, one of them of three records, classified, summarized and
\* aggregated
C25_Witness ==
    /\ pc = "done"
    /\ Len(iterations) = 3
    /\ Len(per_iteration) = 3
    /\ \E r \in 1..3 :
          /\ Len(iterations[r][2]) = 6
          /\ iterations[r][2][4].category = "task_work"
          /\ iterations[r][2][4].phase = "work"
          /\ iterations[r][2][4].seq = 3

\* C29: the aggregate of phase summaries of non-negative token counts has
\* 0 <= nav_tokens <= total_tokens and 0 <= nav_pct <= 100, and its
\* first_edit_pct is null or an integer in 0..100.
C29_AggregateWithinBounds ==
    pc = "done" =>
        /\ \A r \in RunIndex :
              \A k \in TokenKeys : /\ SummaryOf(r).nav_phase.tokens[k] >= 0
                                   /\ SummaryOf(r).work_phase.tokens[k] >= 0
        /\ 0 <= aggregate[1].nav_tokens
        /\ aggregate[1].nav_tokens <= aggregate[1].total_tokens
        /\ 0 <= aggregate[1].nav_pct /\ aggregate[1].nav_pct <= 100
        /\ \/ aggregate[1].first_edit_pct = <<>>
           \/ /\ Len(aggregate[1].first_edit_pct) = 1
              /\ aggregate[1].first_edit_pct[1] \in 0..100

\* an aggregate whose navigation tokens are part of its tokens, not all of
\* them, with a first-edit percentage
C29_Witness ==
    /\ pc = "done"
    /\ 0 < aggregate[1].nav_tokens
    /\ aggregate[1].nav_tokens < aggregate[1].total_tokens
    /\ 0 < aggregate[1].nav_pct /\ aggregate[1].nav_pct < 100
    /\ aggregate[1].first_edit_pct # <<>>

-----------------------------------------------------------------------------
(* Properties of the phase summary of a list of edits (SpecEdits) *)

\* C26: the nav and work partitions of a phase summary add up to its totals:
\* each token component, the token_total, and the tool calls, whose sum is
\* the number of tool_call events of the run.
C26_PhasesAddUpToTotals ==
    pc = "summarized" =>
        LET s == summary[1]
        IN /\ \A k \in TokenKeys :
                 s.totals.tokens[k] = s.nav_phase.tokens[k] + s.work_phase.tokens[k]
           /\ s.totals.token_total = s.nav_phase.token_total + s.work_phase.token_total
           /\ s.totals.tool_calls = s.nav_phase.tool_call_count + s.work_phase.tool_call_count
           /\ s.totals.tool_calls =
                 Cardinality({i \in EventIndex : events[i].type = "tool_call"})

\* a summary with a tool call in each phase and tokens in the work phase
C26_Witness ==
    /\ pc = "summarized"
    /\ summary[1].nav_phase.tool_call_count = 1
    /\ summary[1].work_phase.tool_call_count = 1
    /\ summary[1].work_phase.token_total = 150
    /\ summary[1].totals.token_total = 150
    /\ summary[1].totals.tool_calls = 2

\* C27: has_edits is true if and only if first_edit_seq is not None, a
\* boundary at seq 0 included, if and only if the work phase has a tool call;
\* when has_edits is false the work phase is empty (no tool calls, no tokens,
\* no files) and the totals are those of the nav phase.
C27_HasEditsIffWorkPhase ==
    pc = "summarized" =>
        LET s == summary[1]
        IN /\ s.has_edits <=> (first_edit_seq # <<>>)
           /\ s.first_edit_seq = first_edit_seq
           /\ s.has_edits <=> (s.work_phase.tool_call_count >= 1)
           /\ ~s.has_edits =>
                 /\ s.work_phase.tool_call_count = 0
                 /\ DOMAIN s.work_phase.tool_counts = {}
                 /\ s.work_phase.tokens = ZeroTokens
                 /\ s.work_phase.token_total = 0
                 /\ s.work_phase.unique_files = {}
                 /\ s.work_phase.unique_file_count = 0
                 /\ s.totals.tokens = s.nav_phase.tokens
                 /\ s.totals.token_total = s.nav_phase.token_total
                 /\ s.totals.tool_calls = s.nav_phase.tool_call_count

\* a summary of a run whose first event, of seq 0, is the boundary
C27_Witness ==
    /\ pc = "summarized"
    /\ Len(events) = 3
    /\ first_edit_seq = <<0>>
    /\ summary[1].has_edits
    /\ summary[1].work_phase.tool_call_count = 3
    /\ summary[1].nav_phase.tool_call_count = 0

\* C28: in a classified run every Edit or Write whose path matches no
\* exclusion rule has category task_work and phase work; every Edit or Write
\* left in the nav phase targets an excluded path; the event at first_edit_seq
\* is a task_work event.
C28_QualifyingEditsAreWork ==
    Classified =>
        /\ \A i \in EditCalls :
              /\ ~is_excluded_file(PathOf(i)) =>
                    events[i].category = "task_work" /\ events[i].phase = "work"
              /\ events[i].phase = "nav" => is_excluded_file(PathOf(i))
        /\ first_edit_seq # <<>> =>
              \E i \in EventIndex :
                  /\ events[i].seq = first_edit_seq[1]
                  /\ events[i].category = "task_work"
                  /\ events[i].phase = "work"

\* a classified run of an excluded edit in the nav phase and two edits of
\* source files after it, the first of them the boundary
C28_Witness ==
    /\ pc = "classified"
    /\ EditCalls = {1, 2, 3}
    /\ is_excluded_file(PathOf(1)) /\ events[1].phase = "nav"
    /\ ~is_excluded_file(PathOf(2)) /\ ~is_excluded_file(PathOf(3))
    /\ first_edit_seq = <<1>>
    /\ events[2].phase = "work" /\ events[3].phase = "work"

====
